---- MODULE Spec2Model ----
(***************************************************************************)
(* Model of src/app.py: run_simulation (growth-rate estimation, policy     *)
(* scaling, the projection loop with the price feedback, aggregation,      *)
(* the two pyplot charts and the summary) and save_plot_to_base64.         *)
(*                                                                         *)
(* Numbers are IEEE-754 doubles in the program and in the model: every     *)
(* sum, product and quotient is rounded to the nearest double, ties to     *)
(* even, with signed zeros, infinities and nan.  The integers of the       *)
(* arithmetic are sequences of limbs, so that no intermediate value is     *)
(* ever cut.  Text is a sequence of pieces: the literal parts of an        *)
(* f-string whole, a formatted number character by character.              *)
(***************************************************************************)
EXTENDS FiniteSets, Integers, Sequences, TLC

----------------------------------------------------------------------------
(* Evaluation by name.  Apply(f, a) is the value of the definition named   *)
(* f at the arguments a.  The definitions of the arithmetic call each      *)
(* other through it, and the statements of run_simulation call through it  *)
(* the functions they use, so that a definition is unfolded once and not   *)
(* at each of its uses.  Each operator of this section stands for the call *)
(* of the definition that carries its name with the suffix Impl.           *)

RECURSIVE Apply(_, _)

BCmp(a, b) == Apply("BCmp", <<a, b>>)

BitLen(a) == Apply("BitLen", <<a>>)

BMulSmall(a, k) == Apply("BMulSmall", <<a, k>>)

BAdd(a, b) == Apply("BAdd", <<a, b>>)

BSub(a, b) == Apply("BSub", <<a, b>>)

BShl(a, n) == Apply("BShl", <<a, n>>)

BShr(a, n) == Apply("BShr", <<a, n>>)

BDivSmall(a, k) == Apply("BDivSmall", <<a, k>>)

BMul(a, b) == Apply("BMul", <<a, b>>)

BDiv(a, b) == Apply("BDiv", <<a, b>>)

Exact(s, M, E) == Apply("Exact", <<s, M, E>>)

Round(s, M, E, sticky) == Apply("Round", <<s, M, E, sticky>>)

Num(i) == Apply("Num", <<i>>)

MagCmp(x, y) == Apply("MagCmp", <<x, y>>)

FAdd(x, y) == Apply("FAdd", <<x, y>>)

FMul(x, y) == Apply("FMul", <<x, y>>)

FDiv(x, y) == Apply("FDiv", <<x, y>>)

FLt(x, y) == Apply("FLt", <<x, y>>)

Pow(base, n) == Apply("Pow", <<base, n>>)

Decimal(a, least) == Apply("Decimal", <<a, least>>)

Formatted(x, dec, plus, comma) ==
    Apply("Formatted", <<x, dec, plus, comma>>)

----------------------------------------------------------------------------
(* Small integers                                                           *)

Min(a, b) == IF a < b THEN a ELSE b

Max(a, b) == IF a < b THEN b ELSE a

RECURSIVE IntPow(_, _)
IntPow(a, e) == IF e = 0 THEN 1 ELSE a * IntPow(a, e - 1)

----------------------------------------------------------------------------
(* Natural numbers of any size: little-endian sequences of limbs in         *)
(* 0..Base-1 without a leading zero limb; <<>> is 0                          *)

LimbBits == 15

Base == IntPow(2, LimbBits)

PowersOfTwo == [k \in 0..LimbBits |-> IntPow(2, k)]

TwoTo(k) == PowersOfTwo[k]

\* a without its zero limbs at the high end
BTrim(a) ==
    IF a = <<>> \/ a[Len(a)] # 0 THEN a
    ELSE IF \A j \in 1..Len(a) : a[j] = 0 THEN <<>>
    ELSE SubSeq(a, 1, CHOOSE j \in 1..Len(a) :
                          a[j] # 0 /\ \A k \in (j + 1)..Len(a) : a[k] = 0)

RECURSIVE BNat(_)
BNat(n) == IF n = 0 THEN <<>> ELSE <<n % Base>> \o BNat(n \div Base)

Limb(a, j) == IF j <= Len(a) THEN a[j] ELSE 0

\* limbs lo..hi of a + b + c and the carry out of them
RECURSIVE BAddRange(_, _, _, _, _)
BAddRange(a, b, lo, hi, c) ==
    IF lo = hi
    THEN LET t == Limb(a, lo) + Limb(b, lo) + c
         IN  [d |-> <<t % Base>>, c |-> t \div Base]
    ELSE LET mid == (lo + hi) \div 2
             low == BAddRange(a, b, lo, mid, c)
         IN  IF low.c < 0 THEN low
             ELSE LET high == BAddRange(a, b, mid + 1, hi, low.c)
                  IN  [d |-> low.d \o high.d, c |-> high.c]

BAddImpl(a, b) ==
    IF a = <<>> THEN b
    ELSE IF b = <<>> THEN a
    ELSE LET res == BAddRange(a, b, 1, Max(Len(a), Len(b)), 0)
         IN  IF res.c = 0 THEN res.d ELSE res.d \o <<res.c>>

\* limbs lo..hi of a - b - c and the borrow out of them
RECURSIVE BSubRange(_, _, _, _, _)
BSubRange(a, b, lo, hi, c) ==
    IF lo = hi
    THEN LET t == a[lo] - Limb(b, lo) - c
         IN  IF t < 0 THEN [d |-> <<t + Base>>, c |-> 1]
             ELSE [d |-> <<t>>, c |-> 0]
    ELSE LET mid == (lo + hi) \div 2
             low == BSubRange(a, b, lo, mid, c)
         IN  IF low.c < 0 THEN low
             ELSE LET high == BSubRange(a, b, mid + 1, hi, low.c)
                  IN  [d |-> low.d \o high.d, c |-> high.c]

\* a - b for a >= b
BSubImpl(a, b) ==
    IF b = <<>> THEN a ELSE BTrim(BSubRange(a, b, 1, Len(a), 0).d)

\* -1, 0 or 1 as a < b, a = b or a > b
BCmpImpl(a, b) ==
    IF Len(a) < Len(b) THEN -1
    ELSE IF Len(a) > Len(b) THEN 1
    ELSE IF a = b THEN 0
    ELSE LET j == CHOOSE i \in 1..Len(a) :
                      a[i] # b[i] /\ \A k \in (i + 1)..Len(a) : a[k] = b[k]
         IN  IF a[j] < b[j] THEN -1 ELSE 1

\* limbs lo..hi of a * k + c and the carry out of them
RECURSIVE BMulSmallRange(_, _, _, _, _)
BMulSmallRange(a, k, lo, hi, c) ==
    IF lo = hi
    THEN LET t == a[lo] * k + c
         IN  [d |-> <<t % Base>>, c |-> t \div Base]
    ELSE LET mid == (lo + hi) \div 2
             low == BMulSmallRange(a, k, lo, mid, c)
         IN  IF low.c < 0 THEN low
             ELSE LET high == BMulSmallRange(a, k, mid + 1, hi, low.c)
                  IN  [d |-> low.d \o high.d, c |-> high.c]

\* a * k for 0 <= k < Base
BMulSmallImpl(a, k) ==
    IF k = 0 \/ a = <<>> THEN <<>>
    ELSE IF k = 1 THEN a
    ELSE LET res == BMulSmallRange(a, k, 1, Len(a), 0)
         IN  IF res.c = 0 THEN res.d ELSE res.d \o <<res.c>>

\* a * Base^w
BShiftLimbs(a, w) == IF a = <<>> THEN a ELSE [j \in 1..w |-> 0] \o a

\* a times the limbs lo..hi of b
RECURSIVE BMulRange(_, _, _, _)
BMulRange(a, b, lo, hi) ==
    IF lo = hi THEN BMulSmall(a, b[lo])
    ELSE LET mid == (lo + hi) \div 2
         IN  BAdd(BMulRange(a, b, lo, mid),
                  BShiftLimbs(BMulRange(a, b, mid + 1, hi), mid + 1 - lo))

BMulImpl(a, b) ==
    IF a = <<>> \/ b = <<>> THEN <<>>
    ELSE IF Len(a) < Len(b) THEN BMulRange(b, a, 1, Len(a))
    ELSE BMulRange(a, b, 1, Len(b))

\* division of the limbs hi..lo of a by k, after the remainder r of the
\* limbs above them
RECURSIVE BDivSmallRange(_, _, _, _, _)
BDivSmallRange(a, k, hi, lo, r) ==
    IF lo = hi
    THEN LET t == r * Base + a[hi]
         IN  [q |-> <<t \div k>>, r |-> t % k]
    ELSE LET mid  == (lo + hi + 1) \div 2
             high == BDivSmallRange(a, k, hi, mid, r)
         IN  IF high.r < 0 THEN high
             ELSE LET low == BDivSmallRange(a, k, mid - 1, lo, high.r)
                  IN  [q |-> low.q \o high.q, r |-> low.r]

\* quotient and remainder of a by k, 0 < k < Base
BDivSmallImpl(a, k) ==
    IF a = <<>> THEN [q |-> <<>>, r |-> 0]
    ELSE IF k = 1 THEN [q |-> a, r |-> 0]
    ELSE LET res == BDivSmallRange(a, k, Len(a), 1, 0)
         IN  [q |-> BTrim(res.q), r |-> res.r]

\* number of bits of the limb x > 0
LimbLen(x) == CHOOSE k \in 1..LimbBits : TwoTo(k - 1) <= x /\ x < TwoTo(k)

\* number of bits of a
BitLenImpl(a) ==
    IF a = <<>> THEN 0 ELSE LimbBits * (Len(a) - 1) + LimbLen(a[Len(a)])

\* a * 2^n
BShlImpl(a, n) ==
    BShiftLimbs(BMulSmall(a, TwoTo(n % LimbBits)), n \div LimbBits)

\* a \div 2^n
BShrImpl(a, n) ==
    LET w == n \div LimbBits
    IN  IF w >= Len(a) THEN <<>>
        ELSE BDivSmall(SubSeq(a, w + 1, Len(a)), TwoTo(n % LimbBits)).q

\* a % 2^n
BLow(a, n) ==
    LET w == n \div LimbBits
    IN  IF w >= Len(a) THEN a
        ELSE BTrim(SubSeq(a, 1, w) \o <<a[w + 1] % TwoTo(n % LimbBits)>>)

BOdd(a) == a # <<>> /\ a[1] % 2 = 1

\* the largest digit q <= guess with q * b <= r
RECURSIVE BFitDigit(_, _, _)
BFitDigit(r, b, guess) ==
    IF BCmp(BMulSmall(b, guess), r) <= 0 THEN guess
    ELSE BFitDigit(r, b, guess - 1)

\* long division of the limbs hi..lo of a by b, whose top limb is at least
\* Base/2, after the remainder r of the limbs above them
RECURSIVE BDivRange(_, _, _, _, _)
BDivRange(a, b, hi, lo, r) ==
    IF lo = hi
    THEN LET n     == Len(b)
             cur   == BTrim(<<a[hi]>> \o r)
             guess == Min(Base - 1,
                          (Limb(cur, n + 1) * Base + Limb(cur, n)) \div b[n])
             d     == BFitDigit(cur, b, guess)
         IN  [q |-> <<d>>, r |-> BSub(cur, BMulSmall(b, d))]
    ELSE LET mid  == (lo + hi + 1) \div 2
             high == BDivRange(a, b, hi, mid, r)
         IN  IF Len(high.r) < 0 THEN high
             ELSE LET low == BDivRange(a, b, mid - 1, lo, high.r)
                  IN  [q |-> low.q \o high.q, r |-> low.r]

\* quotient of a by b > 0, and whether the division leaves no remainder
BDivImpl(a, b) ==
    IF a = <<>> THEN [q |-> <<>>, exact |-> TRUE]
    ELSE LET sh  == LimbBits - LimbLen(b[Len(b)])
             an  == BShl(a, sh)
             res == BDivRange(an, BShl(b, sh), Len(an), 1, <<>>)
         IN  [q |-> BTrim(res.q), exact |-> res.r = <<>>]

RECURSIVE BPow(_, _)
BPow(a, n) ==
    IF n = 0 THEN <<1>> ELSE IF n = 1 THEN a ELSE BMul(a, BPow(a, n - 1))

\* Newton's iteration for the integer n-th root of x, from r above it
RECURSIVE BRootFrom(_, _, _)
BRootFrom(x, n, r) ==
    LET next == BDivSmall(BAdd(BMulSmall(r, n - 1),
                               BDiv(x, BPow(r, n - 1)).q), n).q
    IN  IF BCmp(next, r) < 0 THEN BRootFrom(x, n, next) ELSE r

\* the integer part of the n-th root of x
BRoot(x, n) ==
    IF x = <<>> THEN x ELSE BRootFrom(x, n, BShl(<<1>>, (BitLen(x) \div n) + 1))

----------------------------------------------------------------------------
(* IEEE-754 binary64 (numpy.float64 and Python float).  A finite value is   *)
(* s * m * 2^e with m odd (m = <<>>, e = 0 for the zeros, which keep their   *)
(* sign), m below 2^53, e at least -1074 and the value below 2^1024.         *)

Precision == 53

MinExp == -1074

MaxTop == 1024

NaN == [k |-> "nan", s |-> 1, m |-> <<>>, e |-> 0]

Inf(s) == [k |-> "inf", s |-> s, m |-> <<>>, e |-> 0]

Zero(s) == [k |-> "fin", s |-> s, m |-> <<>>, e |-> 0]

IsNaN(x) == x.k = "nan"

IsFin(x) == x.k = "fin"

IsZero(x) == x.k = "fin" /\ x.m = <<>>

FNeg(x) == IF IsNaN(x) THEN x ELSE [x EXCEPT !.s = -x.s]

\* number of zero limbs at the low end of a # <<>>
RECURSIVE LowZeroLimbs(_, _)
LowZeroLimbs(a, j) == IF a[j] # 0 THEN j - 1 ELSE LowZeroLimbs(a, j + 1)

\* number of zero bits at the low end of the limb x > 0
LowZeroBits(x) ==
    CHOOSE k \in 0..(LimbBits - 1) :
        x % TwoTo(k) = 0 /\ x % TwoTo(k + 1) # 0

\* s * M * 2^E as a double, M at most Precision bits long and E >= MinExp
\* once the low zero bits are dropped; beyond the largest double it is inf
ExactImpl(s, M, E) ==
    IF M = <<>> THEN Zero(s)
    ELSE LET w == LowZeroLimbs(M, 1)
             a == SubSeq(M, w + 1, Len(M))
             z == LowZeroBits(a[1])
             m == BShr(a, z)
             e == E + LimbBits * w + z
         IN  IF e + BitLen(m) > MaxTop THEN Inf(s)
             ELSE [k |-> "fin", s |-> s, m |-> m, e |-> e]

\* the double nearest to s * (M + f) * 2^E, ties to even, where 0 <= f < 1
\* and f > 0 exactly if sticky; a sticky M is at least Precision + 2 bits long
RoundImpl(s, M, E, sticky) ==
    LET lsb == Max(E + BitLen(M) - Precision, MinExp)
        sh  == lsb - E
    IN  IF sh <= 0 THEN Exact(s, M, E)
        ELSE LET q    == BShr(M, sh)
                 c    == BCmp(BLow(M, sh), BShl(<<1>>, sh - 1))
                 up   == c > 0 \/ (c = 0 /\ (sticky \/ BOdd(q)))
             IN  Exact(s, IF up THEN BAdd(q, <<1>>) ELSE q, lsb)

\* the double of the integer i
NumImpl(i) == IF i < 0 THEN Exact(-1, BNat(-i), 0) ELSE Exact(1, BNat(i), 0)

\* position of the leading bit of a finite nonzero x: |x| < 2^Top(x)
Top(x) == x.e + BitLen(x.m)

\* -1, 0 or 1 as |x| < |y|, |x| = |y| or |x| > |y|, for finite nonzero x, y
MagCmpImpl(x, y) ==
    IF Top(x) < Top(y) THEN -1
    ELSE IF Top(x) > Top(y) THEN 1
    ELSE LET e == Min(x.e, y.e)
         IN  BCmp(BShl(x.m, x.e - e), BShl(y.m, y.e - e))

\* x + y for finite nonzero x and y
AddFinite(x, y) ==
    LET far == Precision + 5
        hi  == IF MagCmp(x, y) < 0 THEN y ELSE x
        lo  == IF MagCmp(x, y) < 0 THEN x ELSE y
    IN  IF Top(hi) - Top(lo) >= far
        THEN LET t == far - 1 - BitLen(hi.m)
                 M == BShl(hi.m, t)
             IN  IF hi.s = lo.s THEN Round(hi.s, M, hi.e - t, TRUE)
                 ELSE Round(hi.s, BSub(M, <<1>>), hi.e - t, TRUE)
        ELSE LET e == Min(x.e, y.e)
                 a == BShl(hi.m, hi.e - e)
                 b == BShl(lo.m, lo.e - e)
             IN  IF hi.s = lo.s THEN Round(hi.s, BAdd(a, b), e, FALSE)
                 ELSE IF a = b THEN Zero(1)
                 ELSE Round(hi.s, BSub(a, b), e, FALSE)

\* x + y
FAddImpl(x, y) ==
    IF IsNaN(x) \/ IsNaN(y) THEN NaN
    ELSE IF x.k = "inf" /\ y.k = "inf"
         THEN (IF x.s = y.s THEN x ELSE NaN)
    ELSE IF x.k = "inf" THEN x
    ELSE IF y.k = "inf" THEN y
    ELSE IF IsZero(x) /\ IsZero(y)
         THEN Zero(IF x.s = -1 /\ y.s = -1 THEN -1 ELSE 1)
    ELSE IF IsZero(x) THEN y
    ELSE IF IsZero(y) THEN x
    ELSE AddFinite(x, y)

\* x - y
FSub(x, y) == FAdd(x, FNeg(y))

\* x * y
FMulImpl(x, y) ==
    IF IsNaN(x) \/ IsNaN(y) THEN NaN
    ELSE IF x.k = "inf" \/ y.k = "inf"
         THEN (IF IsZero(x) \/ IsZero(y) THEN NaN ELSE Inf(x.s * y.s))
    ELSE IF IsZero(x) \/ IsZero(y) THEN Zero(x.s * y.s)
    ELSE Round(x.s * y.s, BMul(x.m, y.m), x.e + y.e, FALSE)

\* x / y with numpy semantics: a zero divisor gives inf or nan, no exception
FDivImpl(x, y) ==
    IF IsNaN(x) \/ IsNaN(y) THEN NaN
    ELSE IF x.k = "inf"
         THEN (IF y.k = "inf" THEN NaN ELSE Inf(x.s * y.s))
    ELSE IF y.k = "inf" THEN Zero(x.s * y.s)
    ELSE IF IsZero(y)
         THEN (IF IsZero(x) THEN NaN ELSE Inf(x.s * y.s))
    ELSE IF IsZero(x) THEN Zero(x.s * y.s)
    ELSE LET k   == Max(0, Precision + 3 + BitLen(y.m) - BitLen(x.m))
             res == BDiv(BShl(x.m, k), y.m)
         IN  Round(x.s * y.s, res.q, x.e - y.e - k, ~res.exact)

\* the double nearest to num / den, as a decimal literal or a parsed cell
\* gives it (den a power of ten)
Dec(num, den) == FDiv(Num(num), Num(den))

\* x < y (false as soon as one side is nan)
FLtImpl(x, y) ==
    IF IsNaN(x) \/ IsNaN(y) THEN FALSE
    ELSE IF x.k = "inf" THEN x.s = -1 /\ ~(y.k = "inf" /\ y.s = -1)
    ELSE IF y.k = "inf" THEN y.s = 1
    ELSE IF IsZero(x) THEN ~IsZero(y) /\ y.s = 1
    ELSE IF IsZero(y) THEN x.s = -1
    ELSE IF x.s # y.s THEN x.s = -1
    ELSE IF x.s = 1 THEN MagCmp(x, y) < 0
    ELSE MagCmp(x, y) > 0

\* x == y (nan is equal to nothing, -0 equals +0)
FEq(x, y) ==
    /\ ~IsNaN(x) /\ ~IsNaN(y)
    /\ \/ IsZero(x) /\ IsZero(y)
       \/ x = y

FLe(x, y) == FLt(x, y) \/ FEq(x, y)

\* the literals of run_simulation as doubles
One == Num(1)

Nought == Num(0)

Half == Dec(1, 2)

Thousand == Num(1000)

Hundred == Num(100)

\* 0.05, the rate calculate_cagr falls back to
FallbackRate == Dec(1, 20)

----------------------------------------------------------------------------
(* pow(x, 1/n) as numpy.float64.__pow__ computes it with the C library      *)

\* bits of the root kept before rounding
RootBits == 58

\* bits of the root kept when the exponent is not exactly 1/n
RootBitsWide == 96

\* fraction bits of the base-2 logarithm
LogBits == 40

\* fraction bits of the logarithm's running mantissa
LogGuard == 88

\* fraction bits of the constant ln 2
Ln2Bits == 60

\* ln 2 * 2^Ln2Bits, rounded
Ln2 == <<30619, 31289, 1533, 22713>>

\* one step of the logarithm: square the mantissa in [1, 2) and shift out
\* the next bit
LogStep(st) ==
    LET g == BShr(BMul(st.f, st.f), LogGuard)
    IN  IF BitLen(g) > LogGuard + 1
        THEN [f |-> BShr(g, 1), bits |-> BAdd(BShl(st.bits, 1), <<1>>)]
        ELSE [f |-> g, bits |-> BShl(st.bits, 1)]

RECURSIVE LogSteps(_, _)
LogSteps(st, k) ==
    IF k = 1 THEN LogStep(st)
    ELSE LET half == LogSteps(st, k \div 2)
         IN  IF Len(half.f) > 0 THEN LogSteps(half, k - (k \div 2)) ELSE half

\* log2 of the finite x > 0 in units of 2^-LogBits, rounded down: sign and
\* magnitude
Log2(x) ==
    LET len  == BitLen(x.m)
        frac == LogSteps([f |-> BShl(x.m, LogGuard - (len - 1)),
                          bits |-> <<>>], LogBits).bits
        int  == Top(x) - 1
    IN  IF int >= 0
        THEN [s |-> 1, m |-> BAdd(BShl(BNat(int), LogBits), frac)]
        ELSE [s |-> -1, m |-> BSub(BShl(BNat(-int), LogBits), frac)]

\* the values the C library's pow may return for x^y, for a finite x > 0,
\* where y is the double nearest to 1/n, n >= 2: the power itself when it
\* is a double, else either of the two doubles that enclose it (pow is not
\* correctly rounded: which of the two it returns depends on the library).
\* The power is the n-th root, corrected by the factor
\* x^(y - 1/n) = 1 - (1/n - y) * ln x when y is not 1/n
PowRoot(x, n) ==
    LET y     == FDiv(Num(1), Num(n))
        j     == -y.e
        one   == BShl(<<1>>, j)
        prod  == BMulSmall(y.m, n)
        same  == prod = one
        k1    == x.e % n
        X1    == BShl(x.m, k1)
        R1    == BRoot(X1, n)
        whole == BPow(R1, n) = X1
        bits  == IF same THEN RootBits ELSE RootBitsWide
        k0    == Max(0, bits * n - BitLen(x.m))
        k     == IF whole THEN k1 ELSE k0 + ((x.e - k0) % n)
        X     == BShl(x.m, k)
        E     == (x.e - k) \div n
        R     == IF whole THEN R1 ELSE BRoot(X, n)
        \* the doubles enclosing (M + f) * 2^F, 0 <= f < 1, f > 0 exactly
        \* if sticky
        Enclosing(M, F, sticky) ==
            LET lsb == Max(F + BitLen(M) - Precision, MinExp)
                sh  == lsb - F
            IN  IF sh <= 0 THEN {Exact(1, M, F)}
                ELSE LET q == BShr(M, sh)
                     IN  IF BLow(M, sh) = <<>> /\ ~sticky
                         THEN {Exact(1, q, lsb)}
                         ELSE {Exact(1, q, lsb),
                               Exact(1, BAdd(q, <<1>>), lsb)}
    IN  IF same THEN Enclosing(R, E, ~whole)
        ELSE LET dneg  == BCmp(one, prod) < 0
                 dabs  == IF dneg THEN BSub(prod, one) ELSE BSub(one, prod)
                 lg    == Log2(x)
                 tm    == BMul(BMul(dabs, Ln2), lg.m)
                 tneg  == (lg.s = -1) # dneg
                 unit  == BShl(BNat(n), j + Ln2Bits + LogBits)
                 fac   == IF tneg THEN BAdd(unit, tm) ELSE BSub(unit, tm)
                 pad   == Max(0, Precision + 3 - BitLen(R))
                 M     == BDivSmall(BShl(BMul(R, fac), pad), n).q
             IN  Enclosing(M, E - (j + Ln2Bits + LogBits) - pad,
                           tm # <<>> \/ ~whole)

\* the values base ** (1 / n) may have, for a numpy.float64 base and an
\* integer n >= 1 (1 / n is a double: the power is the C library's pow)
PowImpl(base, n) ==
    IF n = 1 THEN {base}
    ELSE IF IsNaN(base) THEN {NaN}
    ELSE IF base.k = "inf" THEN {Inf(1)}
    ELSE IF IsZero(base) THEN {Zero(1)}
    ELSE IF base.s = -1 THEN {NaN}
    ELSE PowRoot(base, n)

----------------------------------------------------------------------------
(* Conversions to text and to int                                           *)

DigitChars == <<"0", "1", "2", "3", "4", "5", "6", "7", "8", "9">>

\* 10^h
RECURSIVE BTen(_)
BTen(h) ==
    IF h <= 4 THEN BNat(IntPow(10, h))
    ELSE BMul(BTen(h \div 2), BTen(h - (h \div 2)))

\* the w decimal digits of a < 10^w, the first one first
RECURSIVE Digits(_, _)
Digits(a, w) ==
    IF w <= 4
    THEN LET v == Limb(a, 1)
         IN  [j \in 1..w |-> DigitChars[((v \div IntPow(10, w - j)) % 10) + 1]]
    ELSE LET h == w \div 2
             q == BDiv(a, BTen(h)).q
         IN  Digits(q, w - h) \o Digits(BSub(a, BMul(q, BTen(h))), h)

\* the decimal digits of a, at least least of them, without other leading
\* zeros
DecimalImpl(a, least) ==
    LET w  == Max(least, ((BitLen(a) * 30103) \div 100000) + 1)
        ds == Digits(a, w)
    IN  IF w > least /\ ds[1] = "0" THEN Tail(ds) ELSE ds

\* the integer nearest to m * 2^e * 10^dec, ties to even (e < 0)
Scaled(x, dec) ==
    LET P == BMul(x.m, BTen(dec))
    IN  IF x.e >= 0 THEN BShl(P, x.e)
        ELSE LET q == BShr(P, -x.e)
                 c == BCmp(BLow(P, -x.e), BShl(<<1>>, -x.e - 1))
             IN  IF c > 0 \/ (c = 0 /\ BOdd(q)) THEN BAdd(q, <<1>>) ELSE q

\* digits with a comma before every group of three, counted from the right
Grouped(ds) ==
    LET L == Len(ds)
        T == L + ((L - 1) \div 3)
    IN  [p \in 1..T |->
            LET r == T - p + 1
            IN  IF r % 4 = 0 THEN "," ELSE ds[L - (r - (r \div 4)) + 1]]

\* format(x, spec) for the specs ',.<dec>f' (comma) and '+.<dec>f' (plus),
\* as the sequence of its characters
FormattedImpl(x, dec, plus, comma) ==
    LET sign == IF ~IsNaN(x) /\ x.s = -1 THEN <<"-">>
                ELSE IF plus THEN <<"+">> ELSE <<>>
    IN  IF IsNaN(x) THEN sign \o <<"n", "a", "n">>
        ELSE IF x.k = "inf" THEN sign \o <<"i", "n", "f">>
        ELSE LET ds  == Decimal(Scaled(x, dec), dec + 1)
                 int == SubSeq(ds, 1, Len(ds) - dec)
                 fr  == SubSeq(ds, Len(ds) - dec + 1, Len(ds))
             IN  sign \o (IF comma THEN Grouped(int) ELSE int)
                      \o (IF dec > 0 THEN <<".">> \o fr ELSE <<>>)

\* format(x, ',.<dec>f')
FormatFixed(x, dec) == Formatted(x, dec, FALSE, TRUE)

\* f"{p * 100:+.0f}"
FormatSigned(p) == Formatted(FMul(p, Hundred), 0, TRUE, FALSE)

\* str(int(x)) for a finite x: truncation toward zero
IntOf(x) ==
    LET a == IF x.e >= 0 THEN BShl(x.m, x.e) ELSE BShr(x.m, -x.e)
    IN  (IF x.s = -1 /\ a # <<>> THEN <<"-">> ELSE <<>>) \o Decimal(a, 1)

----------------------------------------------------------------------------
(* Inputs of run_simulation                                                 *)

\* largest number of rows of an input table
MaxRows == 3

\* largest projection_years passed to run_simulation
MaxHorizon == 2

\* a cell that pd.to_numeric cannot parse
Text == [k |-> "text", s |-> 1, m |-> <<>>, e |-> 0]

YearCells == {Num(2020), Num(2021), Num(2022), Text}

\* the year columns: every sequence of 1..MaxRows year cells, in any order,
\* with repeated years and with unparsable cells
YearColumns == UNION {[1..m -> YearCells] : m \in 1..MaxRows}

\* value columns and policy of an input: <<a, b>> is a column whose first
\* row holds a and whose later rows hold b; pol is <<policy_prod_change,
\* policy_cons_change>>
Scenarios ==
    { [prod |-> <<Num(1), Num(4)>>, cons |-> <<Num(1), Num(1)>>,
       pop |-> <<Num(1000), Num(1000)>>, price |-> Num(50),
       pol |-> <<Num(0), Num(0)>>],
      [prod |-> <<Num(4), Num(1)>>, cons |-> <<Num(1), Num(1)>>,
       pop |-> <<Num(1000), Num(1000)>>, price |-> Num(50),
       pol |-> <<Num(0), Num(0)>>],
      [prod |-> <<Num(4), Num(1)>>, cons |-> <<Num(1), Num(1)>>,
       pop |-> <<Num(1000), Num(1000)>>, price |-> Num(50),
       pol |-> <<Num(1), Num(0)>>],
      [prod |-> <<Num(0), Num(4)>>, cons |-> <<Num(0), Num(1)>>,
       pop |-> <<Num(0), Num(1000)>>, price |-> Num(50),
       pol |-> <<Dec(1, 10), Dec(1, 5)>>],
      [prod |-> <<Num(4), Num(0)>>, cons |-> <<Num(1), Num(1)>>,
       pop |-> <<Num(1000), Num(1000)>>, price |-> Num(50),
       pol |-> <<Num(0), Num(0)>>],
      [prod |-> <<Num(-1), Num(1)>>, cons |-> <<Num(1), Num(4)>>,
       pop |-> <<Num(1000), Num(1000)>>, price |-> Num(50),
       pol |-> <<Num(0), Dec(-1, 2)>>],
      [prod |-> <<Num(1), Num(1)>>, cons |-> <<Num(1), Num(1)>>,
       pop |-> <<Num(1000), Num(1000)>>, price |-> Num(50),
       pol |-> <<Num(1), Num(1)>>],
      [prod |-> <<Num(1), Num(4)>>, cons |-> <<Num(1), Num(1)>>,
       pop |-> <<Num(1000), Num(1000)>>, price |-> Num(-50),
       pol |-> <<Num(0), Num(0)>>],
      [prod |-> <<Num(1), Num(4)>>, cons |-> <<Num(4), Num(1)>>,
       pop |-> <<Num(250), Num(1000)>>, price |-> Num(50),
       pol |-> <<Dec(-1, 2), Num(1)>>],
      [prod |-> <<Num(4), Num(4)>>, cons |-> <<Num(0), Num(4)>>,
       pop |-> <<Num(1000), Num(250)>>, price |-> Num(0),
       pol |-> <<Num(0), Num(1)>>],
      \* a production that ends at 1.0000000000000002: over two periods
      \* its rate is the square root of 0.25000000000000006, less 1
      [prod |-> <<Num(4), FAdd(Num(1), Exact(1, <<1>>, -52))>>,
       cons |-> <<Num(1), Num(1)>>,
       pop |-> <<Num(1000), Num(1000)>>, price |-> Num(50),
       pol |-> <<Num(0), Num(0)>>] }

Column(pair, len) == [j \in 1..len |-> IF j = 1 THEN pair[1] ELSE pair[2]]

Table(years, sc) ==
    [j \in 1..Len(years) |->
        [year |-> years[j],
         production_ton |-> Column(sc.prod, Len(years))[j],
         consumption_per_capita_kg |-> Column(sc.cons, Len(years))[j],
         population_thousand |-> Column(sc.pop, Len(years))[j],
         price_rp_per_kg |-> sc.price]]

Call(rows, pp, pcons, h) ==
    [rows |-> rows, policy_prod_change |-> pp, policy_cons_change |-> pcons,
     projection_years |-> h]

\* the end-to-end scenario: 2020 -> 2023, both policies 0, horizon 1
EndToEndCall ==
    Call(<< [year |-> Num(2020), production_ton |-> Num(100),
             consumption_per_capita_kg |-> Num(10),
             population_thousand |-> Num(1000), price_rp_per_kg |-> Num(50)],
            [year |-> Num(2023), production_ton |-> Dec(11576, 100),
             consumption_per_capita_kg |-> Num(11),
             population_thousand |-> Num(1030), price_rp_per_kg |-> Num(55)] >>,
         Num(0), Num(0), 1)

\* projection_years of run_simulation when the caller passes none
DefaultHorizon == 5

\* float(request.form.get(name, 0)) / 100
PolicyOfForm(percent) == FDiv(Num(percent), Hundred)

\* the call index() makes for request i: a production that grows past the
\* demand for the first, one that falls short of it for the second
ConcurrentCalls(i) ==
    IF i = 1
    THEN { Call(<< [year |-> Num(2020), production_ton |-> Num(1),
                    consumption_per_capita_kg |-> Num(1),
                    population_thousand |-> Num(1000),
                    price_rp_per_kg |-> Num(50)],
                   [year |-> Num(2021), production_ton |-> Num(4),
                    consumption_per_capita_kg |-> Num(1),
                    population_thousand |-> Num(1000),
                    price_rp_per_kg |-> Num(50)] >>,
                PolicyOfForm(0), PolicyOfForm(0), DefaultHorizon) }
    ELSE { Call(<< [year |-> Num(2020), production_ton |-> Num(4),
                    consumption_per_capita_kg |-> Num(1),
                    population_thousand |-> Num(1000),
                    price_rp_per_kg |-> Num(50)],
                   [year |-> Num(2022), production_ton |-> Num(1),
                    consumption_per_capita_kg |-> Num(1),
                    population_thousand |-> Num(1000),
                    price_rp_per_kg |-> Num(50)] >>,
                PolicyOfForm(100), PolicyOfForm(0), DefaultHorizon) }

Calls ==
    { Call(Table(y, sc), sc.pol[1], sc.pol[2], h) :
        y \in YearColumns, sc \in Scenarios, h \in 0..MaxHorizon }
    \cup {EndToEndCall}

----------------------------------------------------------------------------
(* The pure parts of run_simulation                                         *)

\* a local that has not been assigned yet
Undef == [k |-> "undef", s |-> 1, m |-> <<>>, e |-> 0]

to_numeric(cell) == IF cell.k = "text" THEN NaN ELSE cell

\* df.apply(pd.to_numeric, errors='coerce').dropna(): unparsable cells become
\* nan and every row holding a nan is dropped; the row order is kept
Preprocessed(rows) ==
    LET num == [j \in 1..Len(rows) |->
                  [year |-> to_numeric(rows[j].year),
                   production_ton |-> to_numeric(rows[j].production_ton),
                   consumption_per_capita_kg |->
                       to_numeric(rows[j].consumption_per_capita_kg),
                   population_thousand |->
                       to_numeric(rows[j].population_thousand),
                   price_rp_per_kg |-> to_numeric(rows[j].price_rp_per_kg)]]
        Whole(r) == /\ ~IsNaN(r.year)
                    /\ ~IsNaN(r.production_ton)
                    /\ ~IsNaN(r.consumption_per_capita_kg)
                    /\ ~IsNaN(r.population_thousand)
                    /\ ~IsNaN(r.price_rp_per_kg)
    IN  SelectSeq(num, Whole)

InsufficientMsg == "Data terlalu sedikit untuk simulasi (min 2 baris historis)."

\* df['year'].max()
MaxYear(d) ==
    CHOOSE y \in {d[j].year : j \in 1..Len(d)} :
        \A j \in 1..Len(d) : FLe(d[j].year, y)

\* [last_year + i for i in range(1, projection_years + 1)]
YearsToProject(ly, h) ==
    [t \in 1..(IF h > 0 THEN h ELSE 0) |-> FAdd(ly, Num(t))]

\* the distinct values of df['year']: -0.0 and 0.0 are one value
DistinctYears(d) ==
    {IF IsZero(d[j].year) THEN Zero(1) ELSE d[j].year : j \in 1..Len(d)}

\* df['year'].nunique() - 1
NPeriods(d) == Cardinality(DistinctYears(d)) - 1

\* calculate_cagr raises ZeroDivisionError when it evaluates 1/n_periods
\* with n_periods = 0, which it does unless the first value is 0
CagrRaises(first, n) == ~IsZero(first) /\ n = 0

\* the C library after calculate_cagr has run: lib holds the value of pow
\* at the arguments it was called with so far. A call made before returns
\* what it returned then; a new call returns any of the values of Pow, and
\* there is no call when the first value is 0
PowCalled(lib, first, last, n) ==
    IF IsZero(first) THEN {lib}
    ELSE LET base == FDiv(last, first)
         IN  IF <<base, n>> \in DOMAIN lib THEN {lib}
             ELSE {(<<base, n>> :> v) @@ lib : v \in Pow(base, n)}

\* calculate_cagr without the test of the first value
CagrUnguarded(first, last, n, lib) ==
    LET base == FDiv(last, first)
    IN  FSub(IF <<base, n>> \in DOMAIN lib THEN lib[<<base, n>>]
             ELSE CHOOSE v \in Pow(base, n) : TRUE, One)

\* calculate_cagr, where it returns, with the C library lib
calculate_cagr(first, last, n, lib) ==
    IF IsZero(first) THEN FallbackRate
    ELSE FSub(lib[<<FDiv(last, first), n>>], One)

\* the policy taken as the factor itself
PolicyRateNoBase(r, policy_change) == FMul(r, policy_change)

\* rate * (1 + policy_change)
PolicyRate(r, policy_change) == FMul(r, FAdd(One, policy_change))

\* value *= (1 + rate)
Grow(value, r) == FMul(value, FAdd(One, r))

\* the price always taken from the last historical price (the formula the
\* comment of line 78 gives up)
NextPriceFromSeed(proj, initial_price, s_d_perc) ==
    FMul(initial_price, FSub(One, FMul(s_d_perc, Half)))

\* the price of the projected year: the previous projected price, or the
\* last historical price in the first iteration, times 1 - s_d_perc * 0.5
NextPrice(proj, initial_price, s_d_perc) ==
    LET corr == FSub(One, FMul(s_d_perc, Half))
    IN  IF proj # <<>> THEN FMul(proj[Len(proj)].price, corr)
        ELSE FMul(initial_price, corr)

\* one iteration of the projection loop: the new running values and the
\* appended entry
ProjectionStep(cur, rs_prod, r_pop, rs_cons, proj, initial_price, year) ==
    LET current_prod    == Grow(cur.prod, rs_prod)
        current_pop     == Grow(cur.pop, r_pop)
        current_cons_pc == Grow(cur.cons_pc, rs_cons)
        total_demand    == FDiv(FMul(current_cons_pc, current_pop), Thousand)
        surplus_deficit == FSub(current_prod, total_demand)
        s_d_perc        == FDiv(surplus_deficit, current_prod)
        current_price   == NextPrice(proj, initial_price, s_d_perc)
    IN  [cur |-> [prod |-> current_prod, pop |-> current_pop,
                  cons_pc |-> current_cons_pc],
         entry |-> [year |-> year, supply |-> current_prod,
                    demand |-> total_demand,
                    surplus_deficit |-> surplus_deficit,
                    price |-> current_price]]

\* the historical rows of full_df
History(d) ==
    [j \in 1..Len(d) |->
        LET demand == FDiv(FMul(d[j].consumption_per_capita_kg,
                                d[j].population_thousand), Thousand)
        IN  [year |-> d[j].year, supply |-> d[j].production_ton,
             demand |-> demand,
             surplus_deficit |-> FSub(d[j].production_ton, demand),
             price |-> d[j].price_rp_per_kg, type |-> "Historis"]]

\* pd.concat([history, proj_df]) with proj_df['type'] = 'Proyeksi'
FullDf(d, proj) ==
    History(d) \o
    [j \in 1..Len(proj) |->
        [year |-> proj[j].year, supply |-> proj[j].supply,
         demand |-> proj[j].demand,
         surplus_deficit |-> proj[j].surplus_deficit,
         price |-> proj[j].price, type |-> "Proyeksi"]]

\* the exception that evaluating the results dictionary raises, "" when it
\* raises none: int(last_year) raises ValueError on nan and OverflowError
\* on an infinite year, and after it proj_df['price'] raises KeyError when
\* the projection is empty
SummaryRaises(ly, proj) ==
    IF IsNaN(ly) THEN "ValueError"
    ELSE IF ~IsFin(ly) THEN "OverflowError"
    ELSE IF proj = <<>> THEN "KeyError"
    ELSE ""

\* the summary whose end price is that of the first projected year
SummaryEndIsFirst(pp, pcons, ly, initial_price, proj) ==
    [scenario_name |-> <<"Produksi Policy: ">> \o FormatSigned(pp)
                       \o <<"% | Konsumsi Policy: ">> \o FormatSigned(pcons)
                       \o <<"%">>,
     last_historical_year |-> IntOf(ly),
     proj_start_price |-> <<"Rp ">> \o FormatFixed(initial_price, 0),
     proj_end_price |-> <<"Rp ">> \o FormatFixed(proj[1].price, 0),
     surplus_2025 |-> FormatFixed(proj[1].surplus_deficit, 2)
                      \o <<" Ribu Ton">>,
     surplus_end |-> FormatFixed(proj[Len(proj)].surplus_deficit, 2)
                     \o <<" Ribu Ton">>]

\* the results dictionary; last_historical_year is the integer in decimal
Summary(pp, pcons, ly, initial_price, proj) ==
    [scenario_name |-> <<"Produksi Policy: ">> \o FormatSigned(pp)
                       \o <<"% | Konsumsi Policy: ">> \o FormatSigned(pcons)
                       \o <<"%">>,
     last_historical_year |-> IntOf(ly),
     proj_start_price |-> <<"Rp ">> \o FormatFixed(initial_price, 0),
     proj_end_price |-> <<"Rp ">> \o FormatFixed(proj[Len(proj)].price, 0),
     surplus_2025 |-> FormatFixed(proj[1].surplus_deficit, 2)
                      \o <<" Ribu Ton">>,
     surplus_end |-> FormatFixed(proj[Len(proj)].surplus_deficit, 2)
                     \o <<" Ribu Ton">>]

----------------------------------------------------------------------------
(* The charts: matplotlib.pyplot keeps one process-wide list of open        *)
(* figures, the last of which is the current figure.  A figure is the set   *)
(* of the drawing calls made on it, and so is its picture.                  *)

Artist(call, label, x, y) == [call |-> call, label |-> label, x |-> x, y |-> y]

Range(seq) == {seq[j] : j \in DOMAIN seq}

\* full_df['year'], full_df['supply'], ...
ColYear(fdf) == [j \in 1..Len(fdf) |-> fdf[j].year]

ColSupply(fdf) == [j \in 1..Len(fdf) |-> fdf[j].supply]

ColDemand(fdf) == [j \in 1..Len(fdf) |-> fdf[j].demand]

ColSurplus(fdf) == [j \in 1..Len(fdf) |-> fdf[j].surplus_deficit]

ColPrice(fdf) == [j \in 1..Len(fdf) |-> fdf[j].price]

\* Series.max(): nan entries are skipped, the first of equal maxima stays
RECURSIVE MaxFrom(_, _, _)
MaxFrom(col, j, best) ==
    IF j > Len(col) THEN best
    ELSE MaxFrom(col, j + 1,
                 IF IsNaN(col[j]) THEN best
                 ELSE IF IsNaN(best) \/ FLt(best, col[j]) THEN col[j]
                 ELSE best)

SeriesMax(col) == MaxFrom(col, 1, NaN)

\* the nine pyplot calls of the first chart, lines 113-123, in program
\* order: call k of the sequence
SupplyDemandCalls(fdf, ly) ==
    [k \in 1..9 |->
        CASE k = 1 -> Artist("plot", "Supply (Produksi)",
                             ColYear(fdf), ColSupply(fdf))
          [] k = 2 -> Artist("plot", "Demand (Kebutuhan Total)",
                             ColYear(fdf), ColDemand(fdf))
          [] k = 3 -> Artist("axvline", "", <<ly>>, <<>>)
          [] k = 4 -> Artist("text", "Titik Simulasi", <<FAdd(ly, Dec(1, 10))>>,
                             <<SeriesMax(ColSupply(fdf))>>)
          [] k = 5 -> Artist("title",
                             "Proyeksi Supply (Produksi) dan Demand (Kebutuhan) Daging Ayam",
                             <<>>, <<>>)
          [] k = 6 -> Artist("xlabel", "Tahun", <<>>, <<>>)
          [] k = 7 -> Artist("ylabel", "Kuantitas (Ribu Ton)", <<>>, <<>>)
          [] k = 8 -> Artist("legend", "", <<>>, <<>>)
          [] k = 9 -> Artist("grid", "", <<>>, <<>>)]

\* the ten calls of lines 130-142 on the objects of the second chart, in
\* program order: five on ax1, ax1.twinx(), three on ax2, fig.tight_layout()
AxesCalls(fdf) ==
    [k \in 1..10 |->
        CASE k = 1 -> Artist("ax1.set_xlabel", "Tahun", <<>>, <<>>)
          [] k = 2 -> Artist("ax1.set_ylabel", "Surplus/Defisit (Ribu Ton)",
                             <<>>, <<>>)
          [] k = 3 -> Artist("ax1.bar", "Surplus/Defisit",
                             ColYear(fdf), ColSurplus(fdf))
          [] k = 4 -> Artist("ax1.tick_params", "y", <<>>, <<>>)
          [] k = 5 -> Artist("ax1.axhline", "", <<>>, <<Nought>>)
          [] k = 6 -> Artist("ax1.twinx", "", <<>>, <<>>)
          [] k = 7 -> Artist("ax2.set_ylabel", "Harga (Rp/kg)", <<>>, <<>>)
          [] k = 8 -> Artist("ax2.plot", "", ColYear(fdf), ColPrice(fdf))
          [] k = 9 -> Artist("ax2.tick_params", "y", <<>>, <<>>)
          [] k = 10 -> Artist("fig.tight_layout", "", <<>>, <<>>)]

PriceTitle ==
    Artist("title", "Hubungan Surplus/Defisit dengan Stabilitas Harga",
           <<>>, <<>>)

\* Identity of a figure object: the invocation that opened it and which of
\* its two charts it is.  A figure that gcf() opens because none is open has
\* identity Implicit; there is at most one such figure at a time, since it is
\* opened only when the list is empty.
FigureId(i, chart) == 2 * i + chart

Implicit == 0

NewFig(id) == [id |-> id, artists |-> {}]

\* plt.<call>(...): draws on the current figure, which gcf() creates when no
\* figure is open
DrawOnCurrent(g, as) ==
    IF g = <<>> THEN <<[id |-> Implicit, artists |-> as]>>
    ELSE [g EXCEPT ![Len(g)].artists = @ \cup as]

\* a call on the figure object f: changes that figure wherever it is in the
\* list, and nothing that pyplot can still reach when it has been closed
DrawOnFigure(g, f, as) ==
    [j \in 1..Len(g) |->
        IF g[j].id = f THEN [g[j] EXCEPT !.artists = @ \cup as]
        ELSE g[j]]

\* plt.savefig(buf, format='png'): the picture of the current figure
Rendered(g) ==
    [format |-> "png",
     artists |-> IF g = <<>> THEN {} ELSE g[Len(g)].artists]

\* f"data:image/png;base64,{base64.b64encode(buf.getbuffer()).decode('ascii')}"
DataUri(image) == [prefix |-> "data:image/png;base64,", base64 |-> image]

\* plt.close(): removes the current figure, if there is one
Closed(g) == IF g = <<>> THEN g ELSE SubSeq(g, 1, Len(g) - 1)

\* the plots dictionary of an invocation that runs with no other
PlotsAlone(fdf, ly) ==
    << [key |-> "supply_demand",
        uri |-> DataUri([format |-> "png",
                         artists |-> Range(SupplyDemandCalls(fdf, ly))])],
       [key |-> "sd_price",
        uri |-> DataUri([format |-> "png",
                         artists |-> Range(AxesCalls(fdf)) \cup {PriceTitle}])] >>

----------------------------------------------------------------------------
(* run_simulation as a function of its arguments: what one invocation       *)
(* returns when no other invocation runs                                    *)

\* return {"error": ...}, None, None
ErrorValue(msg) == [tag |-> "error", error |-> msg, results |-> <<>>,
                    plots |-> <<>>, data |-> <<>>]

\* return results, plots, full_df.to_dict('records')
ResultValue(results, pl, fdf) ==
    [tag |-> "result", error |-> "", results |-> <<results>>,
     plots |-> pl, data |-> fdf]

\* an exception that leaves run_simulation
Raised(exc) == [tag |-> "exception", error |-> exc, results |-> <<>>,
                plots |-> <<>>, data |-> <<>>]

\* the running values and projection_data after t iterations of the loop
RECURSIVE Projection(_, _, _, _, _, _, _)
Projection(seed, rs_prod, r_pop, rs_cons, initial_price, years, t) ==
    IF t = 0 THEN [cur |-> seed, proj |-> <<>>]
    ELSE LET before == Projection(seed, rs_prod, r_pop, rs_cons,
                                  initial_price, years, t - 1)
             st     == ProjectionStep(before.cur, rs_prod, r_pop, rs_cons,
                                      before.proj, initial_price, years[t])
         IN  [cur |-> st.cur, proj |-> Append(before.proj, st.entry)]

\* what run_simulation returns or raises when it runs alone, with the C
\* library lib
RunSimulation(call, lib) ==
    LET d == Preprocessed(call.rows)
    IN  IF Len(d) < 2 THEN ErrorValue(InsufficientMsg)
        ELSE
        LET L     == Len(d)
            ly    == MaxYear(d)
            years == YearsToProject(ly, call.projection_years)
            n     == NPeriods(d)
        IN  IF \/ CagrRaises(d[1].production_ton, n)
               \/ CagrRaises(d[1].population_thousand, n)
               \/ CagrRaises(d[1].consumption_per_capita_kg, n)
            THEN Raised("ZeroDivisionError")
            ELSE
            LET rate_prod == calculate_cagr(d[1].production_ton,
                                            d[L].production_ton, n, lib)
                rate_pop  == calculate_cagr(d[1].population_thousand,
                                            d[L].population_thousand, n, lib)
                rate_cons == calculate_cagr(d[1].consumption_per_capita_kg,
                                            d[L].consumption_per_capita_kg, n,
                                            lib)
                seed == [prod |-> d[L].production_ton,
                         pop |-> d[L].population_thousand,
                         cons_pc |-> d[L].consumption_per_capita_kg]
                proj == Projection(seed,
                            PolicyRate(rate_prod, call.policy_prod_change),
                            rate_pop,
                            PolicyRate(rate_cons, call.policy_cons_change),
                            d[L].price_rp_per_kg, years, Len(years)).proj
                fdf  == FullDf(d, proj)
            IN  IF SummaryRaises(ly, proj) # ""
                THEN Raised(SummaryRaises(ly, proj))
                ELSE ResultValue(Summary(call.policy_prod_change,
                                         call.policy_cons_change, ly,
                                         d[L].price_rp_per_kg, proj),
                                 PlotsAlone(fdf, ly), fdf)

----------------------------------------------------------------------------
(* The definitions that are called by name                                 *)

Apply(f, a) ==
    CASE f = "BCmp" -> BCmpImpl(a[1], a[2])
      [] f = "BitLen" -> BitLenImpl(a[1])
      [] f = "BMulSmall" -> BMulSmallImpl(a[1], a[2])
      [] f = "BAdd" -> BAddImpl(a[1], a[2])
      [] f = "BSub" -> BSubImpl(a[1], a[2])
      [] f = "BShl" -> BShlImpl(a[1], a[2])
      [] f = "BShr" -> BShrImpl(a[1], a[2])
      [] f = "BDivSmall" -> BDivSmallImpl(a[1], a[2])
      [] f = "BMul" -> BMulImpl(a[1], a[2])
      [] f = "BDiv" -> BDivImpl(a[1], a[2])
      [] f = "Exact" -> ExactImpl(a[1], a[2], a[3])
      [] f = "Round" -> RoundImpl(a[1], a[2], a[3], a[4])
      [] f = "Num" -> NumImpl(a[1])
      [] f = "MagCmp" -> MagCmpImpl(a[1], a[2])
      [] f = "FAdd" -> FAddImpl(a[1], a[2])
      [] f = "FMul" -> FMulImpl(a[1], a[2])
      [] f = "FDiv" -> FDivImpl(a[1], a[2])
      [] f = "FLt" -> FLtImpl(a[1], a[2])
      [] f = "Pow" -> PowImpl(a[1], a[2])
      [] f = "Decimal" -> DecimalImpl(a[1], a[2])
      [] f = "Formatted" -> FormattedImpl(a[1], a[2], a[3], a[4])
      [] f = "Calls" -> Calls
      [] f = "ConcurrentCalls" -> ConcurrentCalls(a[1])
      [] f = "Preprocessed" -> Preprocessed(a[1])
      [] f = "MaxYear" -> MaxYear(a[1])
      [] f = "YearsToProject" -> YearsToProject(a[1], a[2])
      [] f = "PowCalled" -> PowCalled(a[1], a[2], a[3], a[4])
      [] f = "calculate_cagr" -> calculate_cagr(a[1], a[2], a[3], a[4])
      [] f = "PolicyRate" -> PolicyRate(a[1], a[2])
      [] f = "ProjectionStep" ->
             ProjectionStep(a[1], a[2], a[3], a[4], a[5], a[6], a[7])
      [] f = "FullDf" -> FullDf(a[1], a[2])
      [] f = "SupplyDemandCalls" -> SupplyDemandCalls(a[1], a[2])
      [] f = "AxesCalls" -> AxesCalls(a[1])
      [] f = "Summary" -> Summary(a[1], a[2], a[3], a[4], a[5])

----------------------------------------------------------------------------
(* State                                                                    *)

VARIABLES
    procs,             \* the invocations of run_simulation in this run
    args,              \* args[i]: the arguments of invocation i
    pc,                \* pc[i]: the statement invocation i is at
    df,                \* the preprocessed table
    last_year,
    years_to_project,
    n_periods,
    rate,              \* rate_prod, rate_pop, rate_cons_pc
    initial,           \* initial_prod, initial_pop, initial_cons_pc, initial_price
    rate_sim,          \* rate_prod_sim, rate_cons_pc_sim
    current,           \* current_prod, current_pop, current_cons_pc
    projection_data,
    full_df,
    plots,
    fig,               \* the figure object of the second chart (Implicit: none yet)
    calls_done,        \* drawing calls of the chart in hand already made
    buf,               \* the picture save_plot_to_base64 holds
    ret,               \* what the invocation returned or raised
    gcf,               \* pyplot: the open figures, the current one last
    libm,              \* the C library: the value of each pow call made
    running,           \* the invocation whose thread ran last (0: none yet)
    preemptions        \* times a thread was switched out before its return

locals == <<df, last_year, years_to_project, n_periods, rate, initial,
            rate_sim, current, projection_data, full_df>>

charts == <<plots, fig, calls_done, buf>>

pyplot == <<gcf>>

threads == <<running, preemptions>>

vars == <<procs, args, pc, locals, charts, ret, pyplot, libm, threads>>

Pending == [tag |-> "pending", error |-> "", results |-> <<>>,
            plots |-> <<>>, data |-> <<>>]

InitLocals(P) ==
    /\ pc = [i \in P |-> "start"]
    /\ df = [i \in P |-> <<>>]
    /\ last_year = [i \in P |-> Undef]
    /\ years_to_project = [i \in P |-> <<>>]
    /\ n_periods = [i \in P |-> 0]
    /\ rate = [i \in P |-> [prod |-> Undef, pop |-> Undef, cons_pc |-> Undef]]
    /\ initial = [i \in P |-> [prod |-> Undef, pop |-> Undef,
                               cons_pc |-> Undef, price |-> Undef]]
    /\ rate_sim = [i \in P |-> [prod |-> Undef, cons_pc |-> Undef]]
    /\ current = [i \in P |-> [prod |-> Undef, pop |-> Undef,
                               cons_pc |-> Undef]]
    /\ projection_data = [i \in P |-> <<>>]
    /\ full_df = [i \in P |-> <<>>]
    /\ plots = [i \in P |-> <<>>]
    /\ fig = [i \in P |-> Implicit]
    /\ calls_done = [i \in P |-> 0]
    /\ buf = [i \in P |-> Rendered(<<>>)]
    /\ ret = [i \in P |-> Pending]
    /\ gcf = <<>>
    /\ libm = [a \in {} |-> NaN]
    /\ running = 0
    /\ preemptions = 0

\* one invocation, on any of the inputs
Init ==
    /\ procs = {1}
    /\ args \in [procs -> Apply("Calls", <<>>)]
    /\ InitLocals(procs)

----------------------------------------------------------------------------
(* The statements of run_simulation                                         *)

\* lines 16-24: clean the table, return the error value on fewer than two
\* rows, else fix the years to project
Preprocess(i) ==
    /\ pc[i] = "start"
    /\ \E d \in {Apply("Preprocessed", <<args[i].rows>>)} :
           IF Len(d) < 2
           THEN /\ ret' = [ret EXCEPT ![i] = ErrorValue(InsufficientMsg)]
                /\ pc' = [pc EXCEPT ![i] = "done"]
                /\ UNCHANGED <<df, last_year, years_to_project>>
           ELSE /\ df' = [df EXCEPT ![i] = d]
                /\ last_year' = [last_year EXCEPT ![i] = Apply("MaxYear", <<d>>)]
                /\ years_to_project' =
                       [years_to_project EXCEPT ![i] =
                           Apply("YearsToProject",
                                 <<last_year'[i], args[i].projection_years>>)]
                /\ pc' = [pc EXCEPT ![i] = "rate_prod"]
                /\ ret' = ret
    /\ UNCHANGED <<procs, args, libm, n_periods, rate, initial, rate_sim,
                   current, projection_data, full_df, charts, pyplot>>

\* lines 29-39: n_periods, and then one call of calculate_cagr in each step,
\* for the production, the population and the consumption in this order;
\* a call that divides by n_periods = 0 raises, and the rates assigned
\* before it stay assigned
EstimateRates(i) ==
    /\ pc[i] \in {"rate_prod", "rate_pop", "rate_cons_pc"}
    /\ LET d     == df[i]
           n     == NPeriods(d)
           first == CASE pc[i] = "rate_prod" -> d[1].production_ton
                      [] pc[i] = "rate_pop" -> d[1].population_thousand
                      [] pc[i] = "rate_cons_pc" ->
                             d[1].consumption_per_capita_kg
           last  == CASE pc[i] = "rate_prod" -> d[Len(d)].production_ton
                      [] pc[i] = "rate_pop" -> d[Len(d)].population_thousand
                      [] pc[i] = "rate_cons_pc" ->
                             d[Len(d)].consumption_per_capita_kg
       IN  /\ n_periods' = [n_periods EXCEPT ![i] = n]
           /\ IF CagrRaises(first, n)
              THEN /\ ret' = [ret EXCEPT ![i] = Raised("ZeroDivisionError")]
                   /\ pc' = [pc EXCEPT ![i] = "raised"]
                   /\ rate' = rate
                   /\ libm' = libm
              ELSE /\ \E lib \in Apply("PowCalled", <<libm, first, last, n>>) :
                      /\ libm' = lib
                      /\ \E r \in {Apply("calculate_cagr",
                                         <<first, last, n, lib>>)} :
                            rate' = [rate EXCEPT ![i] =
                                CASE pc[i] = "rate_prod" ->
                                         [@ EXCEPT !.prod = r]
                                  [] pc[i] = "rate_pop" ->
                                         [@ EXCEPT !.pop = r]
                                  [] pc[i] = "rate_cons_pc" ->
                                         [@ EXCEPT !.cons_pc = r]]
                   /\ pc' = [pc EXCEPT ![i] =
                          CASE pc[i] = "rate_prod" -> "rate_pop"
                            [] pc[i] = "rate_pop" -> "rate_cons_pc"
                            [] pc[i] = "rate_cons_pc" -> "seed"]
                   /\ ret' = ret
    /\ UNCHANGED <<procs, args, df, last_year, years_to_project, initial,
                   rate_sim, current, projection_data, full_df, charts, pyplot>>

\* lines 42-55: the seed of the projection and the policy-scaled rates
SeedAndAdjust(i) ==
    /\ pc[i] = "seed"
    /\ LET r == df[i][Len(df[i])]
       IN  /\ initial' = [initial EXCEPT ![i] =
                  [prod |-> r.production_ton, pop |-> r.population_thousand,
                   cons_pc |-> r.consumption_per_capita_kg,
                   price |-> r.price_rp_per_kg]]
           /\ current' = [current EXCEPT ![i] =
                  [prod |-> r.production_ton, pop |-> r.population_thousand,
                   cons_pc |-> r.consumption_per_capita_kg]]
    /\ rate_sim' = [rate_sim EXCEPT ![i] =
           [prod |-> Apply("PolicyRate",
                           <<rate[i].prod, args[i].policy_prod_change>>),
            cons_pc |-> Apply("PolicyRate",
                              <<rate[i].cons_pc, args[i].policy_cons_change>>)]]
    /\ pc' = [pc EXCEPT ![i] = "loop"]
    /\ UNCHANGED <<procs, args, libm, df, last_year, years_to_project,
                   n_periods, rate, projection_data, full_df, charts, ret,
                   pyplot>>

\* lines 57-92: one iteration of the projection loop
ProjectYear(i) ==
    /\ pc[i] = "loop"
    /\ Len(projection_data[i]) < Len(years_to_project[i])
    /\ \E st \in {Apply("ProjectionStep",
                         <<current[i], rate_sim[i].prod, rate[i].pop,
                           rate_sim[i].cons_pc, projection_data[i],
                           initial[i].price,
                           years_to_project[i][Len(projection_data[i]) + 1]>>)} :
           /\ current' = [current EXCEPT ![i] = st.cur]
           /\ projection_data' =
                  [projection_data EXCEPT ![i] = Append(@, st.entry)]
    /\ UNCHANGED <<procs, args, libm, pc, df, last_year, years_to_project,
                   n_periods, rate, initial, rate_sim, full_df, charts, ret,
                   pyplot>>

\* lines 95-109: the loop is over; history and projection become full_df
Aggregate(i) ==
    /\ pc[i] = "loop"
    /\ Len(projection_data[i]) = Len(years_to_project[i])
    /\ full_df' = [full_df EXCEPT ![i] =
                       Apply("FullDf", <<df[i], projection_data[i]>>)]
    /\ pc' = [pc EXCEPT ![i] = "figure"]
    /\ UNCHANGED <<procs, args, libm, df, last_year, years_to_project,
                   n_periods, rate, initial, rate_sim, current,
                   projection_data, charts, ret, pyplot>>

\* line 112: plt.figure() opens a figure and makes it current
NewFigure(i) ==
    /\ pc[i] = "figure"
    /\ gcf' = Append(gcf, NewFig(FigureId(i, 0)))
    /\ pc' = [pc EXCEPT ![i] = "draw"]
    /\ UNCHANGED <<procs, args, libm, locals, charts, ret>>

\* lines 113-123: the next pyplot call of the first chart, on whatever
\* figure is current
PyplotDraw(i) ==
    /\ pc[i] = "draw"
    /\ \E k \in {calls_done[i] + 1},
          calls \in {Apply("SupplyDemandCalls", <<full_df[i], last_year[i]>>)} :
           /\ gcf' = DrawOnCurrent(gcf, {calls[k]})
           /\ calls_done' = [calls_done EXCEPT ![i] = k]
           /\ pc' = [pc EXCEPT ![i] =
                        IF k + 1 \in DOMAIN calls THEN "draw" ELSE "save1"]
    /\ UNCHANGED <<procs, args, libm, locals, plots, fig, buf, ret>>

\* line 162: plt.savefig writes the current figure, which gcf() creates
\* when none is open
SaveFig(i) ==
    /\ pc[i] \in {"save1", "save2"}
    /\ buf' = [buf EXCEPT ![i] = Rendered(gcf)]
    /\ gcf' = IF gcf = <<>> THEN <<NewFig(Implicit)>> ELSE gcf
    /\ pc' = [pc EXCEPT ![i] = IF pc[i] = "save1" THEN "close1" ELSE "close2"]
    /\ UNCHANGED <<procs, args, libm, locals, plots, fig, calls_done, ret>>

\* lines 163-165 and 124, 144: plt.close() and the data URI stored in plots
ClosePlot(i) ==
    /\ pc[i] \in {"close1", "close2"}
    /\ gcf' = Closed(gcf)
    /\ plots' = [plots EXCEPT ![i] =
           Append(@, [key |-> IF pc[i] = "close1" THEN "supply_demand"
                               ELSE "sd_price",
                      uri |-> DataUri(buf[i])])]
    /\ pc' = [pc EXCEPT ![i] = IF pc[i] = "close1" THEN "subplots" ELSE "summary"]
    /\ UNCHANGED <<procs, args, libm, locals, fig, calls_done, buf, ret>>

\* line 127: plt.subplots() opens the second figure and makes it current
Subplots(i) ==
    /\ pc[i] = "subplots"
    /\ gcf' = Append(gcf, NewFig(FigureId(i, 1)))
    /\ fig' = [fig EXCEPT ![i] = FigureId(i, 1)]
    /\ calls_done' = [calls_done EXCEPT ![i] = 0]
    /\ pc' = [pc EXCEPT ![i] = "axes"]
    /\ UNCHANGED <<procs, args, libm, locals, plots, buf, ret>>

\* lines 130-142: the next call on ax1, ax2 or fig, objects of this
\* invocation's figure
DrawAxes(i) ==
    /\ pc[i] = "axes"
    /\ \E k \in {calls_done[i] + 1},
          calls \in {Apply("AxesCalls", <<full_df[i]>>)} :
           /\ gcf' = DrawOnFigure(gcf, fig[i], {calls[k]})
           /\ calls_done' = [calls_done EXCEPT ![i] = k]
           /\ pc' = [pc EXCEPT ![i] =
                        IF k + 1 \in DOMAIN calls THEN "axes" ELSE "title2"]
    /\ UNCHANGED <<procs, args, libm, locals, plots, fig, buf, ret>>

\* line 143: plt.title(...) on the current figure
PriceChartTitle(i) ==
    /\ pc[i] = "title2"
    /\ gcf' = DrawOnCurrent(gcf, {PriceTitle})
    /\ pc' = [pc EXCEPT ![i] = "save2"]
    /\ UNCHANGED <<procs, args, libm, locals, charts, ret>>

\* lines 148-157: the summary and the return, or the exception that
\* evaluating the summary raises
Summarize(i) ==
    /\ pc[i] = "summary"
    /\ IF SummaryRaises(last_year[i], projection_data[i]) # ""
       THEN /\ ret' = [ret EXCEPT ![i] =
                  Raised(SummaryRaises(last_year[i], projection_data[i]))]
            /\ pc' = [pc EXCEPT ![i] = "raised"]
       ELSE /\ ret' = [ret EXCEPT ![i] =
                  ResultValue(Apply("Summary",
                                    <<args[i].policy_prod_change,
                                      args[i].policy_cons_change,
                                      last_year[i], initial[i].price,
                                      projection_data[i]>>),
                              plots[i], full_df[i])]
            /\ pc' = [pc EXCEPT ![i] = "done"]
    /\ UNCHANGED <<procs, args, libm, locals, charts, pyplot>>

\* largest number of times the threads of a run are switched out before
\* they return
MaxPreemptions == 3

Returned(i) == pc[i] \in {"done", "raised"}

\* the interpreter runs the thread of invocation i next: the thread that ran
\* last goes on, or one takes over from a thread that has returned, or the
\* thread that ran last is switched out
Run(i) ==
    LET switched == running # 0 /\ running # i /\ ~Returned(running)
    IN  /\ switched => preemptions < MaxPreemptions
        /\ running' = i
        /\ preemptions' = IF switched THEN preemptions + 1 ELSE preemptions

Next ==
    \/ \E i \in procs : Run(i) /\ Preprocess(i)
    \/ \E i \in procs : Run(i) /\ EstimateRates(i)
    \/ \E i \in procs : Run(i) /\ SeedAndAdjust(i)
    \/ \E i \in procs : Run(i) /\ ProjectYear(i)
    \/ \E i \in procs : Run(i) /\ Aggregate(i)
    \/ \E i \in procs : Run(i) /\ NewFigure(i)
    \/ \E i \in procs : Run(i) /\ PyplotDraw(i)
    \/ \E i \in procs : Run(i) /\ SaveFig(i)
    \/ \E i \in procs : Run(i) /\ ClosePlot(i)
    \/ \E i \in procs : Run(i) /\ Subplots(i)
    \/ \E i \in procs : Run(i) /\ DrawAxes(i)
    \/ \E i \in procs : Run(i) /\ PriceChartTitle(i)
    \/ \E i \in procs : Run(i) /\ Summarize(i)

Spec == Init /\ [][Next]_vars

----------------------------------------------------------------------------
(* Two requests served at the same time (the Flask development server      *)
(* handles requests in threads): index() calls run_simulation for each     *)
(* with the table and the policies of the request and the default horizon; *)
(* each invocation owns its arguments and locals, the pyplot figure list   *)
(* is the process's                                                        *)

InitConcurrent ==
    /\ procs = {1, 2}
    /\ args \in [procs ->
                   UNION {Apply("ConcurrentCalls", <<i>>) : i \in procs}]
    /\ \A i \in procs : args[i] \in Apply("ConcurrentCalls", <<i>>)
    /\ InitLocals(procs)

SpecConcurrent == InitConcurrent /\ [][Next]_vars

----------------------------------------------------------------------------
(* Properties                                                               *)

\* the projected entries of a returned timeline
Projected(tl) == SelectSeq(tl, LAMBDA e : e.type = "Proyeksi")

Historical(tl) == SelectSeq(tl, LAMBDA e : e.type = "Historis")

\* C1: a series with fewer than 2 distinct years yields the
\* insufficient-history error value and never gets to the rate estimation
\* or the projection.
C1_InsufficientHistory ==
    \A i \in procs :
        Cardinality(DistinctYears(Preprocessed(args[i].rows))) < 2
        => /\ pc[i] \in {"start", "done"}
           /\ pc[i] = "done" => ret[i] = ErrorValue(InsufficientMsg)

\* C2: for a series of at least 2 records and any horizon the invocation
\* returns a timeline that is strictly increasing by year, with one
\* historical entry per record and then horizon projected entries for the
\* years that follow the last historical year.
C2_TimelineOrdering ==
    \A i \in procs :
        LET d  == Preprocessed(args[i].rows)
            h  == args[i].projection_years
            tl == ret[i].data
        IN  (Len(d) >= 2 /\ Returned(i))
            => /\ ret[i].tag = "result"
               /\ \A j \in 1..(Len(tl) - 1) : FLt(tl[j].year, tl[j + 1].year)
               /\ Len(tl) = Len(d) + h
               /\ \A j \in 1..Len(d) : tl[j].type = "Historis"
               /\ \A t \in 1..h :
                     /\ tl[Len(d) + t].type = "Proyeksi"
                     /\ tl[Len(d) + t].year = FAdd(d[Len(d)].year, Num(t))

\* the step is an iteration of invocation i's projection loop
Emits(i) == projection_data'[i] # projection_data[i]

\* the entry the iteration appends
Emitted(i) == projection_data'[i][Len(projection_data'[i])]

\* the price of the entry before it: the last historical price for the
\* first entry
PriceBefore(i) ==
    IF projection_data[i] = <<>> THEN initial[i].price
    ELSE projection_data[i][Len(projection_data[i])].price

\* the price of entry e moved against the sign of its surplus/deficit
Coupled(prev, e) ==
    /\ FLt(Nought, e.surplus_deficit) => FLe(e.price, prev)
    /\ FLt(e.surplus_deficit, Nought) => FLe(prev, e.price)
    /\ FEq(e.surplus_deficit, Nought) => FEq(e.price, prev)

\* C3: in every step of the projection loop of every run the price moves
\* against the sign of the surplus/deficit (it does not rise on a surplus,
\* does not fall on a deficit, stays on 0), negative supplies and prices
\* included.
C3_SignCoupling ==
    [][\A i \in procs : Emits(i) => Coupled(PriceBefore(i), Emitted(i))]_vars

Near(x, c, tol) == FLe(FSub(c, tol), x) /\ FLe(x, FAdd(c, tol))

\* C4: in the end-to-end scenario the production rate is about 0.05 and the
\* supply of the projected year about 121.55.
C4_EndToEnd ==
    \A i \in procs :
        (args[i] = EndToEndCall /\ Len(projection_data[i]) >= 1)
        => /\ Near(rate[i].prod, Dec(5, 100), Dec(5, 1000))
           /\ Near(projection_data[i][1].supply, Dec(12155, 100), Dec(5, 100))

\* C5 as stated: the summary's start price is the price of the first
\* projected year, its end price that of the last, and its two
\* surplus/deficit figures are those of the first and the last projected
\* year.
C5_SummaryFirstLast ==
    \A i \in procs :
        ret[i].tag = "result"
        => LET sm == ret[i].results[1]
               p  == Projected(ret[i].data)
           IN  /\ sm.proj_start_price = <<"Rp ">> \o FormatFixed(p[1].price, 0)
               /\ sm.proj_end_price
                      = <<"Rp ">> \o FormatFixed(p[Len(p)].price, 0)
               /\ sm.surplus_2025
                      = FormatFixed(p[1].surplus_deficit, 2) \o <<" Ribu Ton">>
               /\ sm.surplus_end
                      = FormatFixed(p[Len(p)].surplus_deficit, 2)
                        \o <<" Ribu Ton">>

\* C5 amended: the summary's start price is the price of the last
\* historical record, its end price that of the last projected year, and
\* its two surplus/deficit figures are those of the first and the last
\* projected year.
C5_SummarySeedLast ==
    \A i \in procs :
        ret[i].tag = "result"
        => LET sm == ret[i].results[1]
               p  == Projected(ret[i].data)
               hs == Historical(ret[i].data)
           IN  /\ sm.proj_start_price
                      = <<"Rp ">> \o FormatFixed(hs[Len(hs)].price, 0)
               /\ sm.proj_end_price
                      = <<"Rp ">> \o FormatFixed(p[Len(p)].price, 0)
               /\ sm.surplus_2025
                      = FormatFixed(p[1].surplus_deficit, 2) \o <<" Ribu Ton">>
               /\ sm.surplus_end
                      = FormatFixed(p[Len(p)].surplus_deficit, 2)
                        \o <<" Ribu Ton">>

\* a returned summary of a run of two projected years whose prices and
\* surplus/deficits all print differently
C5_Witness ==
    \E i \in procs :
        /\ ret[i].tag = "result"
        /\ LET p  == Projected(ret[i].data)
               hs == Historical(ret[i].data)
           IN  /\ Len(p) >= 2
               /\ FormatFixed(p[1].price, 0) # FormatFixed(hs[Len(hs)].price, 0)
               /\ FormatFixed(p[1].price, 0) # FormatFixed(p[Len(p)].price, 0)
               /\ FormatFixed(p[1].surplus_deficit, 2)
                      # FormatFixed(p[Len(p)].surplus_deficit, 2)

\* C6: no invocation ends by raising an exception: each returns the error
\* value with its message or a result.
C6_DiscriminatedResult ==
    \A i \in procs :
        /\ ret[i].tag # "exception"
        /\ pc[i] = "done"
           => \/ ret[i].tag = "error" /\ ret[i].error # ""
              \/ ret[i].tag = "result"

\* C7: under every interleaving each invocation ends with exactly what it
\* returns (or raises) when it runs alone.
C7_Isolation ==
    \A i \in procs : Returned(i) => ret[i] = RunSimulation(args[i], libm)

Seeded(i) == rate_sim[i].prod.k # "undef"

C9_ZeroStartFallback ==
    \A i \in procs :
        /\ (rate[i].prod # Undef /\ IsZero(df[i][1].production_ton))
           => rate[i].prod = FallbackRate
        /\ (rate[i].pop # Undef /\ IsZero(df[i][1].population_thousand))
           => rate[i].pop = FallbackRate
        /\ (rate[i].cons_pc # Undef
               /\ IsZero(df[i][1].consumption_per_capita_kg))
           => rate[i].cons_pc = FallbackRate

\* rates estimated for a production that starts at 0 and ends elsewhere
C9_Witness ==
    \E i \in procs :
        /\ rate[i].prod # Undef
        /\ IsZero(df[i][1].production_ton)
        /\ ~IsZero(df[i][Len(df[i])].production_ton)
        /\ n_periods[i] >= 1

\* C10: the loop is seeded with the last historical record, and each of
\* its steps t grows the carried values and appends an entry with
\* demand_t = consumption_t * population_t / 1000, surplus_deficit_t =
\* supply_t - demand_t and price_t = price_{t-1} * (1 - 0.5 *
\* surplus_deficit_t / supply_t), price_{t-1} being the previous entry's
\* price, or the last historical price for t = 1; the carried values and
\* the entries change in no other step.
C10_Recurrence ==
    [][\A i \in procs :
          LET last == df[i][Len(df[i])]
              p    == projection_data[i]
              seed == [prod |-> last.production_ton,
                       pop |-> last.population_thousand,
                       cons_pc |-> last.consumption_per_capita_kg]
          IN  /\ (Seeded(i)' /\ ~Seeded(i))
                 => /\ initial'[i] = [prod |-> seed.prod, pop |-> seed.pop,
                                      cons_pc |-> seed.cons_pc,
                                      price |-> last.price_rp_per_kg]
                    /\ current'[i] = seed
                    /\ projection_data'[i] = <<>>
              /\ Emits(i)
                 => \A e \in {Emitted(i)}, cur \in {current'[i]} :
                       /\ projection_data'[i] = Append(p, e)
                       /\ cur = [prod |-> Grow(current[i].prod,
                                               rate_sim[i].prod),
                                 pop |-> Grow(current[i].pop, rate[i].pop),
                                 cons_pc |-> Grow(current[i].cons_pc,
                                                  rate_sim[i].cons_pc)]
                       /\ e.supply = cur.prod
                       /\ e.demand = FDiv(FMul(cur.cons_pc, cur.pop), Thousand)
                       /\ e.surplus_deficit = FSub(e.supply, e.demand)
                       /\ e.price
                            = FMul(IF p = <<>> THEN last.price_rp_per_kg
                                   ELSE p[Len(p)].price,
                                   FSub(One, FMul(FDiv(e.surplus_deficit,
                                                       e.supply), Half)))
              /\ (Seeded(i) /\ ~Emits(i))
                 => /\ current'[i] = current[i]
                    /\ initial'[i] = initial[i]
                    /\ rate_sim'[i] = rate_sim[i]]_vars

\* a second projected year that follows a first year whose price moved
C10_Witness ==
    \E i \in procs :
        /\ Len(projection_data[i]) >= 2
        /\ IsFin(projection_data[i][2].price)
        /\ ~IsZero(initial[i].price)
        /\ ~FEq(projection_data[i][1].price, initial[i].price)
        /\ ~FEq(projection_data[i][2].price, projection_data[i][1].price)

====
